---- MODULE Spec2Model ----
(***************************************************************************)
(* Model of two view components of the kpi front-end:                      *)
(*   - UserAssetPermsEditor (src/unnamed/part_001): the permission form    *)
(*     with its validity rules, username check, partial users lists and    *)
(*     submit cycle;                                                       *)
(*   - PopoverMenu (src/unnamed/part_002): the delayed-hide popover.       *)
(*   - FormViewTabs (src/jsapp/js/components/formViewTabs.es6): the side   *)
(*     tabs of the form view.                                              *)
(* Spec is the editor, PopoverSpec is the popover menu, TabsSpec is the    *)
(* form view tabs.                                                         *)
(***************************************************************************)
EXTENDS Integers, Sequences, FiniteSets, TLC

VARIABLES
  \* ---- UserAssetPermsEditor: props
  props,                 \* this.props and the permConfig it is used with
  \* ---- UserAssetPermsEditor: this.state
  checked,               \* state[checkbox]
  disabled,              \* state[checkbox + 'Disabled']
  users,                 \* state[partial checkbox + 'Users']
  username,
  isSubmitPending,
  isEditingUsername,
  usernamesBeingChecked,
  \* ---- UserAssetPermsEditor: collaborators
  bulkRequests,          \* bulkSetAssetPermissions calls awaiting an answer
  onSubmitEndCalls,      \* the calls of props.onSubmitEnd by the last handler
  unknownUserNotices,    \* the calls of notifyUnknownUser by the last handler
  \* ---- PopoverMenu
  popProps,              \* props: blurEventDisabled, type, popoverSetVisible
  popoverVisible,
  popoverHiding,
  placement,
  mounted,               \* this._mounted
  timers,                \* window.setTimeout callbacks not fired yet
  popEffect,             \* what the last PopoverMenu handler did
  \* ---- FormViewTabs
  tabsProps,             \* props: show, type
  tabsMounted,           \* componentDidMount has run
  asset,                 \* this.state.asset
  activeRoute,           \* the route the router holds as active
  sideTabs               \* the tabs the last render put in the side bar

editorVars == <<props,
                checked, disabled, users, username, isSubmitPending,
                isEditingUsername, usernamesBeingChecked, bulkRequests,
                onSubmitEndCalls, unknownUserNotices>>
popVars == <<popProps, popoverVisible, popoverHiding, placement, mounted,
             timers, popEffect>>
tabsVars == <<tabsProps, tabsMounted, asset, activeRoute, sideTabs>>
vars == <<editorVars, popVars, tabsVars>>

----------------------------------------------------------------------------
(* Bounds *)

\* most usernames typed into the partial view users text box
MaxUsers == 1
\* most hide timers of the popover menu scheduled at once
MaxTimers == 2
\* most deployed versions of an asset
MaxVersions == 1

----------------------------------------------------------------------------
(* Constants of the editor *)

ANON_USERNAME == "AnonymousUser"

\* iteration order of the CHECKBOX_PERM_PAIRS Map
CHECKBOX_NAMES ==
  << "formView", "formEdit", "submissionsAdd", "submissionsAddPartial",
     "submissionsView", "submissionsViewPartial", "submissionsEdit",
     "submissionsEditPartial", "submissionsValidate",
     "submissionsValidatePartial" >>

Checkboxes == { CHECKBOX_NAMES[i] : i \in 1..Len(CHECKBOX_NAMES) }

CHECKBOX_PERM_PAIRS ==
  [ c \in Checkboxes |->
      CASE c = "formView"                   -> "view_asset"
        [] c = "formEdit"                   -> "change_asset"
        [] c = "submissionsAdd"             -> "add_submissions"
        [] c = "submissionsAddPartial"      -> "partial_submissions"
        [] c = "submissionsView"            -> "view_submissions"
        [] c = "submissionsViewPartial"     -> "partial_submissions"
        [] c = "submissionsEdit"            -> "change_submissions"
        [] c = "submissionsEditPartial"     -> "partial_submissions"
        [] c = "submissionsValidate"        -> "validate_submissions"
        [] c = "submissionsValidatePartial" -> "partial_submissions" ]

\* pairCheckbox.endsWith('Partial')
PartialCheckboxes ==
  { "submissionsAddPartial", "submissionsViewPartial",
    "submissionsEditPartial", "submissionsValidatePartial" }

Permissions == { CHECKBOX_PERM_PAIRS[c] : c \in Checkboxes }

\* PERMISSIONS_CODENAMES.get(name): the constants map sends a codename to
\* itself
PERMISSIONS_CODENAMES(name) == name

----------------------------------------------------------------------------
(* The permission configuration served by the backend (permConfig).        *)
(* implied lists are transitively closed, as the backend serves them.      *)

SurveyPermDefs ==
  [ p \in Permissions |->
      CASE p = "view_asset" ->
             [implied |-> {}, contradictory |-> {}]
        [] p = "change_asset" ->
             [implied |-> {"view_asset"}, contradictory |-> {}]
        [] p = "add_submissions" ->
             [implied |-> {"view_asset"}, contradictory |-> {}]
        [] p = "view_submissions" ->
             [implied |-> {"view_asset"},
              contradictory |-> {"partial_submissions"}]
        [] p = "partial_submissions" ->
             [implied |-> {"view_asset"},
              contradictory |-> {"view_submissions", "change_submissions",
                                 "validate_submissions"}]
        [] p = "change_submissions" ->
             [implied |-> {"view_submissions", "view_asset"},
              contradictory |-> {"partial_submissions"}]
        [] p = "validate_submissions" ->
             [implied |-> {"view_submissions", "view_asset"},
              contradictory |-> {"partial_submissions"}] ]

\* a backend that knows the asset permissions only: the submission
\* permissions have no definition (getPermissionByCodename is undefined)
AssetOnlyPermDefs ==
  [ p \in {"view_asset", "change_asset"} |->
      IF p = "view_asset"
        THEN [implied |-> {}, contradictory |-> {}]
        ELSE [implied |-> {"view_asset"}, contradictory |-> {}] ]

NoFormData == [checked |-> {}, viewPartialUsers |-> << >>]

\* The props the parent component may construct the editor with.
\* hasPermissions: props.permissions is given; formData is then what
\* permParser.buildFormData makes of it (the checked checkboxes and the
\* users of the partial view permission).
NewSurveyUserProps ==
  [permDefs |-> SurveyPermDefs, assignablePerms |-> Permissions,
   username |-> "", hasPermissions |-> FALSE, formData |-> NoFormData,
   onSubmitEndIsFunction |-> TRUE]

EditorProps ==
  { \* a new user of a survey
    NewSurveyUserProps,
    \* an existing user of a survey holding a partial view permission
    [permDefs |-> SurveyPermDefs, assignablePerms |-> Permissions,
     username |-> "a", hasPermissions |-> TRUE,
     formData |-> [checked |-> {"submissionsViewPartial", "submissionsAdd"},
                   viewPartialUsers |-> <<"a", "b">>],
     onSubmitEndIsFunction |-> TRUE],
    \* the anonymous user of a survey, who may edit submissions
    [permDefs |-> SurveyPermDefs, assignablePerms |-> Permissions,
     username |-> ANON_USERNAME, hasPermissions |-> TRUE,
     formData |-> [checked |-> {"submissionsEdit"},
                   viewPartialUsers |-> << >>],
     onSubmitEndIsFunction |-> FALSE],
    \* an existing user without permissions yet, only the partial
    \* permission assignable
    [permDefs |-> SurveyPermDefs,
     assignablePerms |-> {"partial_submissions"},
     username |-> "a", hasPermissions |-> TRUE, formData |-> NoFormData,
     onSubmitEndIsFunction |-> TRUE],
    \* a new user, the backend defines the asset permissions only
    [permDefs |-> AssetOnlyPermDefs, assignablePerms |-> Permissions,
     username |-> "", hasPermissions |-> FALSE, formData |-> NoFormData,
     onSubmitEndIsFunction |-> FALSE] }

----------------------------------------------------------------------------
(* Lookups *)

getCheckboxPermissionPair(checkboxName) == CHECKBOX_PERM_PAIRS[checkboxName]

getPermissionCheckboxPairs(permCodename) ==
  { c \in Checkboxes : CHECKBOX_PERM_PAIRS[c] = permCodename }

getImpliedPermissions(defs, permCodename) ==
  IF PERMISSIONS_CODENAMES(permCodename) \in DOMAIN defs
    THEN defs[PERMISSIONS_CODENAMES(permCodename)].implied
    ELSE {}

\* a lookup that finds no contradictory permission
getContradictoryPermissionsNone(defs, permCodename) ==
  {}

getContradictoryPermissions(defs, permCodename) ==
  IF PERMISSIONS_CODENAMES(permCodename) \in DOMAIN defs
    THEN defs[PERMISSIONS_CODENAMES(permCodename)].contradictory
    ELSE {}

isAssignableIn(defs, assignable, permCodename) ==
  IF PERMISSIONS_CODENAMES(permCodename) \notin DOMAIN defs
    THEN FALSE
    ELSE PERMISSIONS_CODENAMES(permCodename) \in assignable

isAssignable(permCodename) ==
  isAssignableIn(props.permDefs, props.assignablePerms, permCodename)

----------------------------------------------------------------------------
(* Validity rules. A form state object is [checked, disabled, users].      *)

\* the checkboxes paired with one of the given permissions
CheckboxesOf(perms) ==
  UNION { getPermissionCheckboxPairs(p) : p \in perms }

\* the rules with the implied checkboxes checked but left enabled
applyValidityRulesForCheckboxImpliedEnabled(defs, checkboxName, stateObj) ==
  IF stateObj.checked[checkboxName] = FALSE
    THEN stateObj
    ELSE
      LET permissionPair == getCheckboxPermissionPair(checkboxName)
          impliedCheckboxes ==
            CheckboxesOf(getImpliedPermissions(defs, permissionPair))
          contradictoryCheckboxes ==
            CheckboxesOf(getContradictoryPermissions(defs, permissionPair))
      IN [ stateObj EXCEPT
             !.checked = [ c \in Checkboxes |->
                IF c \in contradictoryCheckboxes THEN FALSE
                ELSE IF c \in impliedCheckboxes THEN TRUE
                ELSE stateObj.checked[c] ],
             !.disabled = [ c \in Checkboxes |->
                IF c \in contradictoryCheckboxes
                  THEN TRUE
                  ELSE stateObj.disabled[c] ] ]

applyValidityRulesForCheckbox(defs, checkboxName, stateObj) ==
  IF stateObj.checked[checkboxName] = FALSE
    THEN stateObj
    ELSE
      LET permissionPair == getCheckboxPermissionPair(checkboxName)
          impliedCheckboxes ==
            CheckboxesOf(getImpliedPermissions(defs, permissionPair))
          contradictoryCheckboxes ==
            CheckboxesOf(getContradictoryPermissions(defs, permissionPair))
      IN [ stateObj EXCEPT
             \* implied first, contradictory after (the later write wins)
             !.checked = [ c \in Checkboxes |->
                IF c \in contradictoryCheckboxes THEN FALSE
                ELSE IF c \in impliedCheckboxes THEN TRUE
                ELSE stateObj.checked[c] ],
             !.disabled = [ c \in Checkboxes |->
                IF c \in impliedCheckboxes \cup contradictoryCheckboxes
                  THEN TRUE
                  ELSE stateObj.disabled[c] ] ]

\* the second forEach of applyValidityRules, from position i on
RECURSIVE applyRulesFrom(_, _, _)
applyRulesFrom(defs, i, stateObj) ==
  IF i > Len(CHECKBOX_NAMES)
    THEN stateObj
    ELSE applyRulesFrom(defs, i + 1,
           applyValidityRulesForCheckbox(defs, CHECKBOX_NAMES[i], stateObj))

\* the rules with the users lists cleaned up by the checkboxes as they were
\* before the rules were applied
applyValidityRulesCleanupFirst(defs, stateObj) ==
  LET enabled == [ stateObj EXCEPT
                     !.disabled = [ c \in Checkboxes |-> FALSE ] ]
      ruled == applyRulesFrom(defs, 1, enabled)
  IN [ ruled EXCEPT
         !.users = [ c \in PartialCheckboxes |->
                       IF stateObj.checked[c] = FALSE
                         THEN << >>
                         ELSE ruled.users[c] ] ]

applyValidityRules(defs, stateObj) ==
  LET enabled == [ stateObj EXCEPT
                     !.disabled = [ c \in Checkboxes |-> FALSE ] ]
      ruled == applyRulesFrom(defs, 1, enabled)
  IN [ ruled EXCEPT
         !.users = [ c \in PartialCheckboxes |->
                       IF ruled.checked[c] = FALSE
                         THEN << >>
                         ELSE ruled.users[c] ] ]

----------------------------------------------------------------------------
(* Text of the partial users text boxes. A text is a sequence of           *)
(* characters; a username is a string.                                     *)

USERS == <<"a", "b", "c">>

\* the text "u1 u2 ... uk" of the first k usernames
RECURSIVE TextOf(_)
TextOf(k) ==
  IF k = 0 THEN << >>
  ELSE IF k = 1 THEN << USERS[1] >>
  ELSE TextOf(k - 1) \o << " ", USERS[k] >>

\* The texts a user types into the users text box of a partial checkbox.
\* The users of the partial view checkbox are the only ones the editor reads
\* one by one (onUserExistsStoreChange, getFormData); of the other three
\* lists it reads the length only, and one username is typed there.
PartialUsersTexts(checkbox) ==
  IF checkbox = "submissionsViewPartial"
    THEN { TextOf(k) : k \in 0..MaxUsers }
    ELSE { TextOf(1) }

\* String.prototype.split(' '): the pieces between the spaces, so the empty
\* text gives one empty piece
RECURSIVE splitFrom(_, _, _, _)
splitFrom(text, i, piece, pieces) ==
  IF i > Len(text)
    THEN Append(pieces, piece)
    ELSE IF text[i] = " "
      THEN splitFrom(text, i + 1, "", Append(pieces, piece))
      ELSE splitFrom(text, i + 1, piece \o text[i], pieces)

split(text) == splitFrom(text, 1, "", << >>)

----------------------------------------------------------------------------
(* The user-existence store. A result maps some usernames to a boolean.    *)

StoreUsernames == {"a"}

StoreResults ==
  UNION { [ S -> BOOLEAN ] : S \in SUBSET StoreUsernames }

\* result[username] === false
isFalseIn(result, name) ==
  name \in DOMAIN result /\ result[name] = FALSE

\* what stores.userExists.checkUsername may answer
SyncAnswers == { "true", "false", "undefined" }

\* the usernames typed into the username text box
UsernameInputs == { "", "a" }

----------------------------------------------------------------------------
(* Editor: construction *)

isNew == props.username = ""

DefaultState ==
  [ checked  |-> [ c \in Checkboxes |-> FALSE ],
    disabled |-> [ c \in Checkboxes |-> FALSE ],
    users    |-> [ c \in PartialCheckboxes |-> << >> ] ]

\* assign(this.state, formData)
assignFormData(stateObj, formData) ==
  [ stateObj EXCEPT
      !.checked = [ c \in Checkboxes |-> c \in formData.checked ],
      !.users = [ @ EXCEPT
                    !["submissionsViewPartial"] = formData.viewPartialUsers ] ]

applyPropsData(p) ==
  IF p.hasPermissions
    THEN applyValidityRules(p.permDefs,
                            assignFormData(DefaultState, p.formData))
    ELSE DefaultState

EditorInitWith(propsSet) ==
  /\ props \in propsSet
  /\ checked = applyPropsData(props).checked
  /\ disabled = applyPropsData(props).disabled
  /\ users = applyPropsData(props).users
  /\ username = props.username
  /\ isSubmitPending = FALSE
  /\ isEditingUsername = FALSE
  /\ usernamesBeingChecked = {}
  /\ bulkRequests = 0
  /\ onSubmitEndCalls = << >>
  /\ unknownUserNotices = << >>

----------------------------------------------------------------------------
(* Editor: handlers *)

stateObject == [checked |-> checked, disabled |-> disabled, users |-> users]

\* the checkbox is rendered and the browser lets the user toggle it
\* (formEdit is rendered without the disabled attribute)
canToggle(id) ==
  /\ isAssignable(getCheckboxPermissionPair(id))
  /\ id = "formEdit" \/ ~disabled[id]

onCheckboxChange(id, isChecked) ==
  LET newState == applyValidityRules(props.permDefs,
                    [ stateObject EXCEPT !.checked[id] = isChecked ])
  IN /\ canToggle(id)
     /\ checked' = newState.checked
     /\ disabled' = newState.disabled
     /\ users' = newState.users
     /\ onSubmitEndCalls' = << >>
     /\ unknownUserNotices' = << >>
     /\ UNCHANGED <<props, username, isSubmitPending, isEditingUsername,
                    usernamesBeingChecked, bulkRequests>>

onUsernameChange(name) ==
  /\ isNew
  /\ username' = name
  /\ isEditingUsername' = TRUE
  /\ onSubmitEndCalls' = << >>
  /\ unknownUserNotices' = << >>
  /\ UNCHANGED <<props, checked, disabled, users, isSubmitPending,
                 usernamesBeingChecked, bulkRequests>>

\* the blur handler keeping the username whatever the store answers
onUsernameChangeEndKeeping(userCheck) ==
  /\ isNew
  /\ isEditingUsername' = FALSE
  /\ IF username # "" /\ userCheck = "undefined"
       THEN usernamesBeingChecked' = usernamesBeingChecked \cup {username}
       ELSE UNCHANGED usernamesBeingChecked
  /\ unknownUserNotices' =
       IF username # "" /\ userCheck = "false" THEN << username >> ELSE << >>
  /\ onSubmitEndCalls' = << >>
  /\ UNCHANGED <<props, checked, disabled, users, username, isSubmitPending,
                 bulkRequests>>

\* userCheck is the answer of checkUsernameSync
onUsernameChangeEnd(userCheck) ==
  /\ isNew
  /\ isEditingUsername' = FALSE
  /\ IF username = ""
       THEN /\ unknownUserNotices' = << >>
            /\ UNCHANGED <<username, usernamesBeingChecked>>
       ELSE IF userCheck = "undefined"
         \* checkUsernameAsync
         THEN /\ usernamesBeingChecked' = usernamesBeingChecked \cup {username}
              /\ unknownUserNotices' = << >>
              /\ UNCHANGED username
         ELSE IF userCheck = "false"
           THEN /\ unknownUserNotices' = << username >>
                /\ username' = ""
                /\ UNCHANGED usernamesBeingChecked
           ELSE /\ unknownUserNotices' = << >>
                /\ UNCHANGED <<username, usernamesBeingChecked>>
  /\ onSubmitEndCalls' = << >>
  /\ UNCHANGED <<props, checked, disabled, users, isSubmitPending,
                 bulkRequests>>

onPartialUsersChange(checkbox, text) ==
  /\ isAssignable("partial_submissions")
  /\ checked[checkbox] = TRUE        \* the text box is rendered
  /\ users' = [ users EXCEPT ![checkbox] = split(text) ]
  /\ onSubmitEndCalls' = << >>
  /\ unknownUserNotices' = << >>
  /\ UNCHANGED <<props, checked, disabled, username, isSubmitPending,
                 isEditingUsername, usernamesBeingChecked, bulkRequests>>

\* Array.prototype.pop takes no argument: it removes the last element
pop(list) == SubSeq(list, 1, Len(list) - 1)

\* forEach over the list the callback shrinks: index k is visited while it
\* is present; gives the list left and the usernames notified as unknown
RECURSIVE removeNonexistent(_, _, _, _)
removeNonexistent(list, k, result, notified) ==
  IF k > Len(list)
    THEN [list |-> list, notified |-> notified]
    ELSE IF isFalseIn(result, list[k])
      THEN removeNonexistent(pop(list), k + 1, result,
                             Append(notified, list[k]))
      ELSE removeNonexistent(list, k + 1, result, notified)

onUserExistsStoreChange(result) ==
  LET removed ==
        removeNonexistent(users["submissionsViewPartial"], 1, result, << >>)
  IN
  /\ users' = [ users EXCEPT !["submissionsViewPartial"] = removed.list ]
  /\ IF isFalseIn(result, username)
       THEN /\ username' = ""
            /\ unknownUserNotices' = Append(removed.notified, username)
       ELSE /\ username' = username
            /\ unknownUserNotices' = removed.notified
  /\ usernamesBeingChecked' = usernamesBeingChecked \ DOMAIN result
  /\ onSubmitEndCalls' = << >>
  /\ UNCHANGED <<props, checked, disabled, isSubmitPending,
                 isEditingUsername, bulkRequests>>

----------------------------------------------------------------------------
(* Editor: submit *)

isPartialValid(partialCheckboxName) ==
  IF checked[partialCheckboxName]
    THEN Len(users[partialCheckboxName]) # 0
    ELSE TRUE

\* the guard without the anonymous user test
isSubmitEnabledForAnyone ==
  LET isAnyCheckboxChecked == \E c \in Checkboxes : checked[c] = TRUE
  IN /\ isAnyCheckboxChecked
     /\ isPartialValid("submissionsViewPartial")
     /\ isPartialValid("submissionsAddPartial")
     /\ isPartialValid("submissionsEditPartial")
     /\ isPartialValid("submissionsValidatePartial")
     /\ ~isSubmitPending
     /\ ~isEditingUsername
     /\ username # ""
     /\ usernamesBeingChecked = {}

isSubmitEnabled ==
  LET isAnyCheckboxChecked == \E c \in Checkboxes : checked[c] = TRUE
  IN /\ isAnyCheckboxChecked
     /\ isPartialValid("submissionsViewPartial")
     /\ isPartialValid("submissionsAddPartial")
     /\ isPartialValid("submissionsEditPartial")
     /\ isPartialValid("submissionsValidatePartial")
     /\ ~isSubmitPending
     /\ ~isEditingUsername
     /\ username # ""
     /\ usernamesBeingChecked = {}
     /\ username # ANON_USERNAME

\* the property names of the object getFormData returns
getFormDataKeys ==
  {"username"}
    \cup (IF isAssignable("view_asset") THEN {"formView"} ELSE {})
    \cup (IF isAssignable("change_asset") THEN {"formEdit"} ELSE {})
    \cup (IF isAssignable("add_submissions") THEN {"submissionsAdd"} ELSE {})
    \cup (IF isAssignable("view_submissions") THEN {"submissionsView"} ELSE {})
    \cup (IF isAssignable("partial_submissions")
            THEN {"submissionsViewPartial", "submissionsViewPartialUsers"}
            ELSE {})
    \cup (IF isAssignable("change_submissions")
            THEN {"submissionsEdit"} ELSE {})
    \cup (IF isAssignable("validate_submissions")
            THEN {"submissionsValidate"} ELSE {})

getFormData ==
  [ k \in getFormDataKeys |->
      CASE k = "username" -> username
        [] k = "submissionsViewPartialUsers" -> users["submissionsViewPartial"]
        [] OTHER -> checked[k] ]

\* permParser.parseFormData: one permission for each checkbox the form data
\* holds as true
parseFormData(formData) ==
  { CHECKBOX_PERM_PAIRS[c] :
      c \in { k \in DOMAIN formData \cap Checkboxes : formData[k] = TRUE } }

\* the calls of props.onSubmitEnd made by notifyParentAboutSubmitEnd when
\* state.isSubmitPending has the given value
notifyParentAboutSubmitEnd(isSuccess, pending) ==
  IF ~pending /\ props.onSubmitEndIsFunction
    THEN << isSuccess >>
    ELSE << >>

submit ==
  IF ~isSubmitEnabled
    THEN /\ onSubmitEndCalls' = << >>
         /\ unknownUserNotices' = << >>
         /\ UNCHANGED <<props, checked, disabled, users, username,
                        isSubmitPending, isEditingUsername,
                        usernamesBeingChecked, bulkRequests>>
    ELSE
      LET parsedUser == parseFormData(getFormData)
      IN IF parsedUser # {}
           THEN /\ isSubmitPending' = TRUE
                /\ bulkRequests' = bulkRequests + 1
                /\ onSubmitEndCalls' = << >>
                /\ unknownUserNotices' = << >>
                /\ UNCHANGED <<props, checked, disabled, users, username,
                               isEditingUsername, usernamesBeingChecked>>
           ELSE /\ onSubmitEndCalls' =
                     notifyParentAboutSubmitEnd(TRUE, isSubmitPending)
                /\ unknownUserNotices' = << >>
                /\ UNCHANGED <<props, checked, disabled, users, username,
                               isSubmitPending, isEditingUsername,
                               usernamesBeingChecked, bulkRequests>>

\* The two listeners run from a Reflux action, outside of a React event
\* handler, where setState is applied before it returns: state.isSubmitPending
\* is already false when notifyParentAboutSubmitEnd reads it.
\* the listener with its setState applied after the handler returns
onBulkSetAssetPermissionCompletedBatched ==
  /\ bulkRequests > 0
  /\ bulkRequests' = bulkRequests - 1
  /\ isSubmitPending' = FALSE
  /\ onSubmitEndCalls' = notifyParentAboutSubmitEnd(TRUE, isSubmitPending)
  /\ unknownUserNotices' = << >>
  /\ UNCHANGED <<props, checked, disabled, users, username,
                 isEditingUsername, usernamesBeingChecked>>

onBulkSetAssetPermissionCompleted ==
  /\ bulkRequests > 0
  /\ bulkRequests' = bulkRequests - 1
  /\ isSubmitPending' = FALSE
  /\ onSubmitEndCalls' = notifyParentAboutSubmitEnd(TRUE, isSubmitPending')
  /\ unknownUserNotices' = << >>
  /\ UNCHANGED <<props, checked, disabled, users, username,
                 isEditingUsername, usernamesBeingChecked>>

onBulkSetAssetPermissionFailed ==
  /\ bulkRequests > 0
  /\ bulkRequests' = bulkRequests - 1
  /\ isSubmitPending' = FALSE
  /\ onSubmitEndCalls' = notifyParentAboutSubmitEnd(FALSE, isSubmitPending')
  /\ unknownUserNotices' = << >>
  /\ UNCHANGED <<props, checked, disabled, users, username,
                 isEditingUsername, usernamesBeingChecked>>

----------------------------------------------------------------------------
(* PopoverMenu *)

\* this.props: clearPopover, blurEventDisabled, type, popoverSetVisible
PopoverMenuProps ==
  [ clearPopover : BOOLEAN,
    blurEventDisabled : BOOLEAN,
    type : {"assetrow-menu", "other"},
    popoverSetVisibleIsFunction : BOOLEAN ]

\* the events the toggle button hands to toggle: evt.type, whether
\* evt.relatedTarget carries data-popover-menu-stop-blur, and whether the
\* menu fits above the asset row (the jQuery measurements)
ToggleEvents ==
  [ type : {"click", "blur"}, stopBlur : BOOLEAN, fitsAbove : BOOLEAN ]

\* a handler that did nothing observable
PopoverQuiet(op) ==
  [op |-> op, focused |-> FALSE, scheduled |-> FALSE, setVisible |-> FALSE]

PopoverInitWith(propsSet) ==
  /\ popProps \in propsSet
  /\ popoverVisible = FALSE
  /\ popoverHiding = FALSE
  /\ placement = "below"
  /\ mounted = "constructed"    \* _mounted is false
  /\ timers = 0
  /\ popEffect = PopoverQuiet("constructor")

\* this._mounted
isMounted == mounted = "mounted"

componentDidMount ==
  /\ mounted = "constructed"
  /\ mounted' = "mounted"
  /\ popEffect' = PopoverQuiet("componentDidMount")
  /\ UNCHANGED <<popProps, popoverVisible, popoverHiding, placement, timers>>

componentWillUnmount ==
  /\ mounted = "mounted"
  /\ mounted' = "unmounted"
  /\ popEffect' = PopoverQuiet("componentWillUnmount")
  /\ UNCHANGED <<popProps, popoverVisible, popoverHiding, placement, timers>>

componentWillReceiveProps(nextProps) ==
  /\ isMounted
  /\ popoverVisible' = IF popoverVisible /\ nextProps.clearPopover
                         THEN FALSE
                         ELSE popoverVisible
  /\ popProps' = nextProps
  /\ popEffect' = PopoverQuiet("componentWillReceiveProps")
  /\ UNCHANGED <<popoverHiding, placement, mounted, timers>>

\* toggle runs in a React event handler: its setState calls are applied
\* when it returns, and every this.state it reads is the state it started
\* with.
\* the part of toggle after its two early returns
toggleVisibility(evt) ==
  LET isBlur == evt.type = "blur" IN
  /\ IF popoverVisible \/ isBlur
       THEN /\ timers < MaxTimers
            /\ popoverHiding' = TRUE
            /\ timers' = timers + 1
            /\ UNCHANGED popoverVisible
       ELSE /\ popoverVisible' = TRUE
            /\ UNCHANGED <<popoverHiding, timers>>
  /\ IF popProps.type = "assetrow-menu" /\ ~popoverVisible
       THEN placement' = IF evt.fitsAbove THEN "above" ELSE "below"
       ELSE UNCHANGED placement
  /\ popEffect' =
       [op |-> "toggle", focused |-> FALSE,
        scheduled |-> (popoverVisible \/ isBlur),
        setVisible |-> (popProps.popoverSetVisibleIsFunction
                          /\ ~popoverVisible)]

\* toggle without its two early returns
toggleEveryBlur(evt) ==
  /\ isMounted
  /\ toggleVisibility(evt)
  /\ UNCHANGED <<popProps, mounted>>

toggle(evt) ==
  LET isBlur == evt.type = "blur" IN
  /\ isMounted
  /\ IF isBlur /\ popProps.blurEventDisabled
       THEN /\ popEffect' = PopoverQuiet("toggle")
            /\ UNCHANGED <<popoverVisible, popoverHiding, placement, timers>>
     ELSE IF isBlur /\ evt.stopBlur
       THEN /\ popEffect' = [PopoverQuiet("toggle") EXCEPT !.focused = TRUE]
            /\ UNCHANGED <<popoverVisible, popoverHiding, placement, timers>>
     ELSE toggleVisibility(evt)
  /\ UNCHANGED <<popProps, mounted>>

\* the timer callback without the _mounted test
hideTimeoutUnguarded ==
  /\ timers > 0
  /\ timers' = timers - 1
  /\ popoverVisible' = FALSE
  /\ popoverHiding' = FALSE
  /\ popEffect' = PopoverQuiet("hideTimeout")
  /\ UNCHANGED <<popProps, placement, mounted>>

\* the callback handed to window.setTimeout
hideTimeout ==
  /\ timers > 0
  /\ timers' = timers - 1
  /\ IF ~isMounted
       THEN UNCHANGED <<popoverVisible, popoverHiding>>
       ELSE /\ popoverVisible' = FALSE
            /\ popoverHiding' = FALSE
  /\ popEffect' = PopoverQuiet("hideTimeout")
  /\ UNCHANGED <<popProps, placement, mounted>>

\* the popover menu of a page that shows the editor only
PopoverIdleProps ==
  [clearPopover |-> FALSE, blurEventDisabled |-> FALSE, type |-> "other",
   popoverSetVisibleIsFunction |-> TRUE]

----------------------------------------------------------------------------
(* FormViewTabs *)

\* this.props: show, type
FormViewTabsProps == [ show : BOOLEAN, type : {"top", "side"} ]

\* The assets the asset store may hold for the current uid. userCan and
\* userCanPartially are what mixins.permissions answers for the asset.
Assets ==
  [ has_deployment : BOOLEAN,
    deployment__active : BOOLEAN,
    deployed_versions_count : 0..MaxVersions,
    userCan : SUBSET {"view_submissions", "change_asset"},
    userCanPartially : SUBSET {"view_submissions"} ]

\* assetStore has no asset for the uid: state.asset is undefined
NoAsset == [ undefined |-> TRUE ]

\* the route for which isActiveRoute answers true
Routes == {"FORM_DATA", "FORM_SETTINGS", "FORM_SUMMARY"}

getFormDataTabs(hasPartialView) ==
  << [label |-> "Table", isDisabled |-> FALSE],
     [label |-> "Reports", isDisabled |-> FALSE],
     [label |-> "Gallery", isDisabled |-> hasPartialView],
     [label |-> "Downloads", isDisabled |-> FALSE],
     [label |-> "Map", isDisabled |-> FALSE] >>

Tab(label) == [label |-> label, isDisabled |-> FALSE]

\* the settings tabs with REST Services shown for deployed, active forms only
settingsSideTabsActiveOnly(a) ==
  << Tab("General") >>
    \o (IF "change_asset" \in a.userCan THEN << Tab("Media") >> ELSE << >>)
    \o << Tab("Sharing"), Tab("Connect Projects") >>
    \o (IF /\ a.deployment__active /\ a.deployed_versions_count > 0
           /\ "view_submissions" \in a.userCan
           /\ "change_asset" \in a.userCan
          THEN << Tab("REST Services") >>
          ELSE << >>)

\* the sideTabs list built for the settings route
settingsSideTabs(a) ==
  << Tab("General") >>
    \o (IF "change_asset" \in a.userCan THEN << Tab("Media") >> ELSE << >>)
    \o << Tab("Sharing"), Tab("Connect Projects") >>
    \o (IF /\ a.deployment__active \/ a.deployed_versions_count > 0
           /\ "view_submissions" \in a.userCan
           /\ "change_asset" \in a.userCan
          THEN << Tab("REST Services") >>
          ELSE << >>)

\* the sideTabs list of renderFormSideTabs (empty: it returns false)
renderFormSideTabs(a, route) ==
  LET dataTabs ==
        IF a # NoAsset /\ a.has_deployment /\ route = "FORM_DATA"
          THEN getFormDataTabs("view_submissions" \in a.userCanPartially)
          ELSE << >>
  IN IF a # NoAsset /\ route = "FORM_SETTINGS"
       THEN settingsSideTabs(a)
       ELSE dataTabs

\* the side tabs render shows
render(p, a, route) ==
  IF ~p.show THEN << >>
  ELSE IF p.type = "side" THEN renderFormSideTabs(a, route)
  ELSE << >>

TabsInitWith(propsSet, routes) ==
  /\ tabsProps \in propsSet
  /\ tabsMounted = FALSE
  /\ asset = NoAsset
  /\ activeRoute \in routes
  /\ sideTabs = render(tabsProps, NoAsset, activeRoute)

\* componentDidMount: stored is assetStore.getAsset(currentAssetID())
tabsComponentDidMount(stored) ==
  /\ ~tabsMounted
  /\ tabsMounted' = TRUE
  /\ asset' = stored
  /\ sideTabs' = render(tabsProps, asset', activeRoute)
  /\ UNCHANGED <<tabsProps, activeRoute>>

\* assetLoad: loaded is data[currentAssetID()]
assetLoad(loaded) ==
  /\ tabsMounted
  /\ asset' = loaded
  /\ sideTabs' = render(tabsProps, asset', activeRoute)
  /\ UNCHANGED <<tabsProps, tabsMounted, activeRoute>>

\* the router moves to another route and the tabs are rendered again
routeChange(route) ==
  /\ tabsMounted
  /\ route # activeRoute
  /\ activeRoute' = route
  /\ sideTabs' = render(tabsProps, asset, activeRoute')
  /\ UNCHANGED <<tabsProps, tabsMounted, asset>>

\* the form view tabs of a page that shows no form
TabsIdleProps == [show |-> FALSE, type |-> "side"]

----------------------------------------------------------------------------
(* The editor as a state machine *)

Init ==
  /\ EditorInitWith(EditorProps)
  /\ PopoverInitWith({PopoverIdleProps})
  /\ TabsInitWith({TabsIdleProps}, {"FORM_SUMMARY"})

CheckboxChange ==
  /\ \E id \in Checkboxes : onCheckboxChange(id, ~checked[id])
  /\ UNCHANGED <<popVars, tabsVars>>

UsernameChange ==
  /\ \E name \in UsernameInputs : onUsernameChange(name)
  /\ UNCHANGED <<popVars, tabsVars>>

UsernameChangeEnd ==
  /\ \E userCheck \in SyncAnswers : onUsernameChangeEnd(userCheck)
  /\ UNCHANGED <<popVars, tabsVars>>

PartialUsersChange ==
  /\ \E c \in PartialCheckboxes : \E text \in PartialUsersTexts(c) :
       onPartialUsersChange(c, text)
  /\ UNCHANGED <<popVars, tabsVars>>

UserExistsStoreChange ==
  /\ \E result \in StoreResults : onUserExistsStoreChange(result)
  /\ UNCHANGED <<popVars, tabsVars>>

Submit ==
  submit /\ UNCHANGED <<popVars, tabsVars>>

BulkSetAssetPermissionCompleted ==
  onBulkSetAssetPermissionCompleted /\ UNCHANGED <<popVars, tabsVars>>

BulkSetAssetPermissionFailed ==
  onBulkSetAssetPermissionFailed /\ UNCHANGED <<popVars, tabsVars>>

Next ==
  \/ CheckboxChange
  \/ UsernameChange
  \/ UsernameChangeEnd
  \/ PartialUsersChange
  \/ UserExistsStoreChange
  \/ Submit
  \/ BulkSetAssetPermissionCompleted
  \/ BulkSetAssetPermissionFailed

Spec == Init /\ [][Next]_vars

----------------------------------------------------------------------------
(* The popover menu as a state machine *)

PopoverInit ==
  /\ EditorInitWith({NewSurveyUserProps})
  /\ PopoverInitWith(PopoverMenuProps)
  /\ TabsInitWith({TabsIdleProps}, {"FORM_SUMMARY"})

Mount ==
  componentDidMount /\ UNCHANGED <<editorVars, tabsVars>>

Unmount ==
  componentWillUnmount /\ UNCHANGED <<editorVars, tabsVars>>

ReceiveProps ==
  /\ \E nextProps \in PopoverMenuProps : componentWillReceiveProps(nextProps)
  /\ UNCHANGED <<editorVars, tabsVars>>

Toggle ==
  /\ \E evt \in ToggleEvents : toggle(evt)
  /\ UNCHANGED <<editorVars, tabsVars>>

HideTimeout ==
  hideTimeout /\ UNCHANGED <<editorVars, tabsVars>>

PopoverNext ==
  \/ Mount
  \/ Unmount
  \/ ReceiveProps
  \/ Toggle
  \/ HideTimeout

PopoverSpec == PopoverInit /\ [][PopoverNext]_vars

----------------------------------------------------------------------------
(* Properties of the editor (checked under Spec)                           *)

\* the permissions the configuration gives as implied by / contradictory to
\* the permission of a checkbox
ImpliedBy(c) ==
  IF CHECKBOX_PERM_PAIRS[c] \in DOMAIN props.permDefs
    THEN props.permDefs[CHECKBOX_PERM_PAIRS[c]].implied
    ELSE {}

ContradictoryTo(c) ==
  IF CHECKBOX_PERM_PAIRS[c] \in DOMAIN props.permDefs
    THEN props.permDefs[CHECKBOX_PERM_PAIRS[c]].contradictory
    ELSE {}

\* C1: for every checked checkbox, every checkbox paired with a permission
\* implied by its permission is checked and disabled, in every state after
\* the construction from props and after every toggle.
C1_ImpliedCheckedAndDisabled ==
  \A c \in Checkboxes :
    checked[c] =>
      \A d \in Checkboxes :
        CHECKBOX_PERM_PAIRS[d] \in ImpliedBy(c) =>
          checked[d] /\ disabled[d]

\* submissionsEdit was toggled on in an empty form: submissionsView and
\* formView are checked and disabled
C1_Witness ==
  /\ ~props.hasPermissions
  /\ checked["submissionsEdit"]
  /\ checked["submissionsView"] /\ disabled["submissionsView"]
  /\ checked["formView"] /\ disabled["formView"]

\* C2: for every checked checkbox, every checkbox paired with a permission
\* contradictory to its permission is unchecked and disabled; so no two
\* checkboxes with contradictory permissions are both checked.
C2_ContradictoryUncheckedAndDisabled ==
  /\ \A c \in Checkboxes :
       checked[c] =>
         \A d \in Checkboxes :
           CHECKBOX_PERM_PAIRS[d] \in ContradictoryTo(c) =>
             ~checked[d] /\ disabled[d]
  /\ ~ \E c, d \in Checkboxes :
         /\ checked[c] /\ checked[d]
         /\ CHECKBOX_PERM_PAIRS[d] \in ContradictoryTo(c)

\* a partial checkbox was toggled on in an empty form: submissionsView,
\* submissionsEdit and submissionsValidate are unchecked and disabled
C2_Witness ==
  /\ ~props.hasPermissions
  /\ checked["submissionsEditPartial"]
  /\ \A d \in {"submissionsView", "submissionsEdit", "submissionsValidate"} :
       ~checked[d] /\ disabled[d]

\* the form is ready, as the claim spells it
FormReady ==
  /\ \E c \in Checkboxes : checked[c]
  /\ \A c \in PartialCheckboxes : checked[c] => Len(users[c]) # 0
  /\ ~isSubmitPending
  /\ ~isEditingUsername
  /\ username # ""
  /\ usernamesBeingChecked = {}
  /\ username # ANON_USERNAME

\* a step that dispatches bulkSetAssetPermissions
BulkDispatched == bulkRequests' = bulkRequests + 1
\* a step that answers a dispatched bulkSetAssetPermissions
BulkAnswered == bulkRequests' = bulkRequests - 1

\* C3: submit dispatches bulkSetAssetPermissions or calls onSubmitEnd only
\* if the form is ready; a submit of a form that is not ready dispatches
\* nothing and leaves the component state unchanged.
C3_SubmitBlocksNonReadyForm ==
  [][ /\ (BulkDispatched \/ (submit /\ onSubmitEndCalls' # << >>))
          => FormReady
      /\ (submit /\ ~FormReady) =>
            /\ onSubmitEndCalls' = << >>
            /\ UNCHANGED <<checked, disabled, users, username,
                           isSubmitPending, isEditingUsername,
                           usernamesBeingChecked, bulkRequests>> ]_vars

\* a submit of a ready form has dispatched the bulk action
C3_Witness ==
  /\ bulkRequests = 1
  /\ isSubmitPending
  /\ username = "a"
  /\ props.username = ""

\* C4: with an onSubmitEnd callback given, a submit of a ready form whose
\* parsed form data is empty calls onSubmitEnd(true) at once, dispatches
\* nothing and leaves isSubmitPending false; otherwise it dispatches, sets
\* isSubmitPending and calls nothing, and the answer makes the one call:
\* true on completed, false on failed, with isSubmitPending false. No other
\* step calls onSubmitEnd, and at most one request is awaiting its answer.
C4_SubmitEndCalledOnce ==
  [][ props.onSubmitEndIsFunction =>
        /\ (submit /\ FormReady /\ parseFormData(getFormData) = {}) =>
              /\ onSubmitEndCalls' = << TRUE >>
              /\ ~BulkDispatched
              /\ ~isSubmitPending'
        /\ (submit /\ FormReady /\ parseFormData(getFormData) # {}) =>
              /\ onSubmitEndCalls' = << >>
              /\ BulkDispatched
              /\ bulkRequests = 0
              /\ isSubmitPending'
        /\ onBulkSetAssetPermissionCompleted =>
              onSubmitEndCalls' = << TRUE >> /\ ~isSubmitPending'
        /\ onBulkSetAssetPermissionFailed =>
              onSubmitEndCalls' = << FALSE >> /\ ~isSubmitPending'
        /\ BulkAnswered => isSubmitPending /\ Len(onSubmitEndCalls') = 1
        /\ onSubmitEndCalls' # << >> =>
              \/ BulkAnswered
              \/ submit /\ FormReady /\ ~isSubmitPending' ]_vars

\* the failed answer of a submit has called onSubmitEnd(false)
C4_Witness ==
  /\ props.onSubmitEndIsFunction
  /\ onSubmitEndCalls = << FALSE >>
  /\ ~isSubmitPending
  /\ bulkRequests = 0

\* a submit with empty parsed form data has called onSubmitEnd(true)
C4_WitnessImmediate ==
  /\ onSubmitEndCalls = << TRUE >>
  /\ parseFormData(getFormData) = {}

\* no username is entered in the users text box of a partial checkbox
NoUsernameEntered(c) ==
  \A i \in 1..Len(users[c]) : users[c][i] = ""

\* C5: a checked partial checkbox with no username entered is not valid and
\* submit is disabled, also after its text box was cleared.
C5_EmptyPartialBlocksSubmit ==
  \A c \in PartialCheckboxes :
    (checked[c] /\ NoUsernameEntered(c)) =>
      ~isPartialValid(c) /\ ~isSubmitEnabled

\* the usernames of a list whose result is not false, in their order
RECURSIVE existingOnly(_, _)
existingOnly(list, result) ==
  IF list = << >>
    THEN << >>
    ELSE IF Head(list) \in DOMAIN result /\ result[Head(list)] = FALSE
      THEN existingOnly(Tail(list), result)
      ELSE << Head(list) >> \o existingOnly(Tail(list), result)

\* C6: after onUserExistsStoreChange the partial view users are exactly the
\* previous ones whose result is not false, in their order.
C6_NonexistentUsersRemoved ==
  [][ \A result \in StoreResults :
        onUserExistsStoreChange(result) =>
          users'["submissionsViewPartial"] =
            existingOnly(users["submissionsViewPartial"], result) ]_vars

\* C7: when the store reports the current non-empty username as
\* non-existent, at blur or through onUserExistsStoreChange, the username
\* becomes empty; a result of true, or one that does not mention the
\* username, leaves it unchanged.
C7_UnknownUsernameCleared ==
  [][ /\ \A userCheck \in SyncAnswers :
           (onUsernameChangeEnd(userCheck) /\ username # "") =>
              username' = IF userCheck = "false" THEN "" ELSE username
      /\ \A result \in StoreResults :
           (onUserExistsStoreChange(result) /\ username # "") =>
              username' =
                IF username \in DOMAIN result /\ result[username] = FALSE
                  THEN ""
                  ELSE username ]_vars

\* the username "a" was reported as non-existent and the input is empty
C7_Witness ==
  /\ props.username = ""
  /\ unknownUserNotices = << "a" >>
  /\ username = ""

\* the name of the users property of a partial checkbox
UsersKey(c) ==
  CASE c = "submissionsAddPartial"      -> "submissionsAddPartialUsers"
    [] c = "submissionsViewPartial"     -> "submissionsViewPartialUsers"
    [] c = "submissionsEditPartial"     -> "submissionsEditPartialUsers"
    [] c = "submissionsValidatePartial" -> "submissionsValidatePartialUsers"

\* C8: getFormData holds the username and, for each checkbox, its value
\* (with its users for a partial checkbox) when its permission is
\* assignable, and no property of a checkbox that is not assignable.
C8_FormDataOfAssignable ==
  /\ "username" \in DOMAIN getFormData
  /\ getFormData["username"] = username
  /\ \A c \in Checkboxes :
       IF isAssignable(CHECKBOX_PERM_PAIRS[c])
         THEN /\ c \in DOMAIN getFormData
              /\ getFormData[c] = checked[c]
              /\ c \in PartialCheckboxes =>
                   /\ UsersKey(c) \in DOMAIN getFormData
                   /\ getFormData[UsersKey(c)] = users[c]
         ELSE /\ c \notin DOMAIN getFormData
              /\ c \in PartialCheckboxes =>
                   UsersKey(c) \notin DOMAIN getFormData

----------------------------------------------------------------------------
(* Properties of the popover menu (checked under PopoverSpec)              *)

\* C9: a blur received while blurEventDisabled is set, or whose
\* relatedTarget carries data-popover-menu-stop-blur, leaves popoverVisible,
\* popoverHiding and placement unchanged, schedules no timer and does not
\* call popoverSetVisible; in the second case the trigger is focused.
C9_SuppressedBlurKeepsMenu ==
  [][ \A evt \in ToggleEvents :
        ( /\ toggle(evt)
          /\ evt.type = "blur"
          /\ popProps.blurEventDisabled \/ evt.stopBlur ) =>
            /\ UNCHANGED <<popoverVisible, popoverHiding, placement, timers>>
            /\ ~popEffect'.scheduled
            /\ ~popEffect'.setVisible
            /\ (~popProps.blurEventDisabled => popEffect'.focused) ]_vars

\* a blur towards a stop-blur element came while the menu was visible: the
\* menu is still visible, not hiding, and the trigger has the focus
C9_Witness ==
  /\ popEffect.op = "toggle"
  /\ popEffect.focused
  /\ popoverVisible
  /\ ~popoverHiding
  /\ timers = 0

\* C10: a click while the popover is visible, or a blur that is not
\* suppressed, sets popoverHiding and keeps popoverVisible, scheduling one
\* timer; a click while it is hidden sets popoverVisible and schedules no
\* timer; the timer sets popoverVisible and popoverHiding to false if the
\* component is mounted and changes no state otherwise.
C10_DelayedHide ==
  [][ /\ \A evt \in ToggleEvents :
           ( /\ toggle(evt)
             /\ ~(evt.type = "blur"
                    /\ (popProps.blurEventDisabled \/ evt.stopBlur)) ) =>
               IF popoverVisible \/ evt.type = "blur"
                 THEN /\ popoverHiding'
                      /\ popoverVisible' = popoverVisible
                      /\ timers' = timers + 1
                 ELSE /\ popoverVisible'
                      /\ timers' = timers
                      /\ ~popEffect'.scheduled
      /\ hideTimeout =>
           IF mounted = "mounted"
             THEN ~popoverVisible' /\ ~popoverHiding'
             ELSE UNCHANGED <<popoverVisible, popoverHiding, placement>> ]_vars

\* the timer of a hiding, visible menu fired after the unmount and the menu
\* state is as the toggle left it
C10_Witness ==
  /\ popEffect.op = "hideTimeout"
  /\ mounted = "unmounted"
  /\ popoverVisible
  /\ popoverHiding

----------------------------------------------------------------------------
(* The form view tabs as a state machine *)

TabsInit ==
  /\ EditorInitWith({NewSurveyUserProps})
  /\ PopoverInitWith({PopoverIdleProps})
  /\ TabsInitWith(FormViewTabsProps, Routes)

TabsMount ==
  /\ \E stored \in Assets \cup {NoAsset} : tabsComponentDidMount(stored)
  /\ UNCHANGED <<editorVars, popVars>>

AssetLoad ==
  /\ \E loaded \in Assets \cup {NoAsset} : assetLoad(loaded)
  /\ UNCHANGED <<editorVars, popVars>>

RouteChange ==
  /\ \E route \in Routes : routeChange(route)
  /\ UNCHANGED <<editorVars, popVars>>

TabsNext ==
  \/ TabsMount
  \/ AssetLoad
  \/ RouteChange

TabsSpec == TabsInit /\ [][TabsNext]_vars

\* the labels of the side tabs shown
SideTabLabels == { sideTabs[i].label : i \in 1..Len(sideTabs) }

\* C11: the side tabs rendered for the settings route hold REST Services if
\* and only if (the deployment is active or the asset has a deployed
\* version) and the user can view_submissions and can change_asset; they
\* always hold General, Sharing and Connect Projects, and hold Media if and
\* only if the user can change_asset.
C11_SettingsSideTabs ==
  ( /\ tabsProps.show /\ tabsProps.type = "side"
    /\ asset # NoAsset
    /\ activeRoute = "FORM_SETTINGS" ) =>
      /\ "REST Services" \in SideTabLabels <=>
           /\ asset.deployment__active \/ asset.deployed_versions_count > 0
           /\ "view_submissions" \in asset.userCan
           /\ "change_asset" \in asset.userCan
      /\ {"General", "Sharing", "Connect Projects"} \subseteq SideTabLabels
      /\ "Media" \in SideTabLabels <=> "change_asset" \in asset.userCan

\* the settings of an archived form (not active, one deployed version) are
\* rendered with the REST Services tab
C11_Witness ==
  /\ tabsProps.show /\ tabsProps.type = "side"
  /\ tabsMounted
  /\ asset # NoAsset
  /\ activeRoute = "FORM_SETTINGS"
  /\ ~asset.deployment__active
  /\ asset.deployed_versions_count > 0
  /\ "REST Services" \in SideTabLabels

----------------------------------------------------------------------------
(* applyValidityRules over every form state *)

\* the users lists a partial checkbox may hold: none, or a typed text split
UsersLists(checkbox) ==
  { << >> } \cup { split(text) : text \in PartialUsersTexts(checkbox) }

\* the permission configurations the rules are applied with
RulesProps == { p \in EditorProps : ~p.hasPermissions }

\* any combination of checked checkboxes and users lists, no checkbox
\* disabled yet
RulesInit ==
  /\ props \in RulesProps
  /\ checked \in [ Checkboxes -> BOOLEAN ]
  /\ disabled = [ c \in Checkboxes |-> FALSE ]
  /\ \E lists \in [ PartialCheckboxes -> UNION { UsersLists(c) : c \in PartialCheckboxes } ] :
       /\ \A c \in PartialCheckboxes : lists[c] \in UsersLists(c)
       /\ users = lists
  /\ username = props.username
  /\ isSubmitPending = FALSE
  /\ isEditingUsername = FALSE
  /\ usernamesBeingChecked = {}
  /\ bulkRequests = 0
  /\ onSubmitEndCalls = << >>
  /\ unknownUserNotices = << >>
  /\ PopoverInitWith({PopoverIdleProps})
  /\ TabsInitWith({TabsIdleProps}, {"FORM_SUMMARY"})

\* applyValidityRules(this.state), the result kept as the state
ApplyValidityRules ==
  LET newState == applyValidityRules(props.permDefs, stateObject)
  IN /\ checked' = newState.checked
     /\ disabled' = newState.disabled
     /\ users' = newState.users
     /\ UNCHANGED <<props, username, isSubmitPending, isEditingUsername,
                    usernamesBeingChecked, bulkRequests, onSubmitEndCalls,
                    unknownUserNotices, popVars, tabsVars>>

RulesNext ==
  \/ ApplyValidityRules
  \/ CheckboxChange

RulesSpec == RulesInit /\ [][RulesNext]_vars

\* C12: applyValidityRules is idempotent: for every form state and the
\* given permission configuration, applying the rules to their own result
\* returns that result again.
C12_RulesIdempotent ==
  LET once == applyValidityRules(props.permDefs, stateObject)
  IN applyValidityRules(props.permDefs, once) = once

\* the rules have acted on a form that had contradictory checkboxes: a
\* checked checkbox holds the contradictory partial ones unchecked, disabled
\* and without users, and the state is a fixed point of the rules
C12_Witness ==
  /\ checked["submissionsEdit"]
  /\ checked["submissionsView"] /\ disabled["submissionsView"]
  /\ \A c \in PartialCheckboxes :
       ~checked[c] /\ disabled[c] /\ users[c] = << >>
  /\ applyValidityRules(props.permDefs, stateObject) = stateObject

====
